---- MODULE Spec2Model ----
(***************************************************************************)
(* Model of Code.py: the KEGG reaction fetcher, the species registry, the  *)
(* flux function reaction_kinetics, the call of the ODE integrator, the    *)
(* change analysis and the main driver.                                    *)
(*                                                                         *)
(* Text is a sequence of characters.  The separators the program looks for *)
(* are characters of their own (" ", "+", "\t", "\n"; the arrow "<=>" is   *)
(* one character, since no input here holds a part of it), and a run of    *)
(* other characters ("A", "R00001", "malformed_line") is one character.    *)
(* Concentrations are integers; equilibrium constants and derivatives are  *)
(* in tenths; the changes analyze_changes classifies are in hundredths.    *)
(***************************************************************************)
EXTENDS Integers, Sequences, FiniteSets, TLC

\* ------------------------------------------------------------- bounds
MaxReactions == 2   \* longest reaction list handed to simulate_reaction_dynamics
MaxInit == 3        \* longest initial-concentration list
MaxLines == 2       \* most lines of a fetched record text
MaxSpeciesRows == 2 \* most rows of the matrix handed to analyze_changes

\* ------------------------------------------------------------- text
ARROW == <<"<=>">>
PLUS == <<" ", "+", " ">>
TAB == <<"\t">>
NL == <<"\n">>

IsSpace(c) == c \in {" ", "\t", "\n"}

\* sep occurs in s at position i
OccursAt(s, sep, i) ==
    /\ i + Len(sep) - 1 <= Len(s)
    /\ \A j \in 1..Len(sep) : s[i + j - 1] = sep[j]

RECURSIVE SplitFrom(_, _, _, _, _)
\* str.split(sep, maxsplit): the pieces of s from position st on, scanning at
\* position i, with at most left further cuts (left < 0: no limit)
SplitFrom(s, sep, st, i, left) ==
    IF left = 0 \/ i + Len(sep) - 1 > Len(s)
    THEN << SubSeq(s, st, Len(s)) >>
    ELSE IF OccursAt(s, sep, i)
         THEN << SubSeq(s, st, i - 1) >>
              \o SplitFrom(s, sep, i + Len(sep), i + Len(sep), left - 1)
         ELSE SplitFrom(s, sep, st, i + 1, left)

\* s.split(sep)
split(s, sep) == SplitFrom(s, sep, 1, 1, -1)

\* s.split(sep, 1)
split1(s, sep) == SplitFrom(s, sep, 1, 1, 1)

\* sep in s
Contains(s, sep) == \E i \in 1..Len(s) : OccursAt(s, sep, i)

RECURSIVE lstrip(_)
lstrip(s) == IF s # <<>> /\ IsSpace(Head(s)) THEN lstrip(Tail(s)) ELSE s

RECURSIVE rstrip(_)
rstrip(s) ==
    IF s # <<>> /\ IsSpace(s[Len(s)]) THEN rstrip(SubSeq(s, 1, Len(s) - 1)) ELSE s

\* s.strip()
strip(s) == lstrip(rstrip(s))

\* [f(x) for x in xs] with f = strip
StripAll(xs) == [i \in 1..Len(xs) |-> strip(xs[i])]

Range(f) == {f[i] : i \in DOMAIN f}

\* ------------------------------------------------------------- inputs
DescPair == <<"A", " ", "<=>", " ", "B">>
DescJoin == <<"A", " ", "+", " ", "B", " ", "<=>", " ", "C">>
DescSwap ==
    <<"A", " ", "+", " ", "C", " ", " ", "<=>", " ", "B", " ", "+", " ", "B", " ">>
DescNoArrow == <<"malformed_line">>
DescTwoArrows == <<"A", " ", "<=>", " ", "B", " ", "<=>", " ", "C">>

ReactionPool ==
    { <<"R1", DescPair>>, <<"R2", DescJoin>>, <<"R1", DescSwap>>,
      <<"R3", DescNoArrow>>, <<"R3", DescTwoArrows>> }

SeqsUpTo(S, n) == UNION {[1..m -> S] : m \in 0..n}

ReactionLists == SeqsUpTo(ReactionPool, MaxReactions) \ {<<>>}

\* the caller's initial_concentrations: entry i holds i, so that a reordering,
\* a wrong cut or a wrong fill shows
InitLists == {[i \in 1..m |-> i] : m \in 0..MaxInit}

\* values of np.random.uniform(0.1, 10), in tenths
KValues == {5, 20}

\* concentrations the integrator evaluates the flux function at
YValues == {0, 1, 2}

\* the t_eval sample count of the solve_ivp call
SampleCount == 100

VARIABLES
    pc,                     \* position in simulate_reaction_dynamics
    reactions,              \* its argument: list of (reaction_id, description)
    initial_concentrations, \* its argument, padded in place
    equilibrium_constants,  \* reaction id -> constant, in tenths
    species,                \* the species list
    y0,                     \* the vector handed to solve_ivp
    y,                      \* state vector of the last reaction_kinetics call
    dydt,                   \* its result, in tenths
    diagnostics,            \* descriptions it printed as skipped
    evals,                  \* reaction_kinetics calls so far
    solution,               \* what solve_ivp returned
    error                   \* exception that left simulate_reaction_dynamics

simVars == << pc, reactions, initial_concentrations, equilibrium_constants,
              species, y0, y, dydt, diagnostics, evals, solution, error >>

VARIABLES
    dpc,             \* position in the main script
    results,         \* the text kegg.find returned
    skipped_lines,   \* lines fetch_reactions_for_molecule reported as skipped
    network,         \* edges of G: (substrate, product, reaction id)
    network_skipped, \* descriptions build_reaction_network printed as malformed
    calls,           \* calls the main script has made, in order
    run              \* position in initial_concentration_range, from 1

driverVars == << dpc, results, skipped_lines, network, network_skipped, calls, run >>

VARIABLES
    apc,       \* position in analyze_changes
    ay,        \* per species: (y[:, 0], y[:, -1]), in hundredths
    magnitude  \* the Magnitude column

analyzeVars == << apc, ay, magnitude >>

vars == << simVars, driverVars, analyzeVars >>

\* ------------------------------------------------------------- species
\* r[1].split("<=>")[1] raises IndexError when the split has one piece
SpeciesRaises(rs) == \E i \in 1..Len(rs) : Len(split(rs[i][2], ARROW)) < 2

\* the stripped terms of pieces 0 and 1 of one description
TermsOf(r) ==
    StripAll(split(split(r[2], ARROW)[1], PLUS))
    \o StripAll(split(split(r[2], ARROW)[2], PLUS))

RECURSIVE AllTerms(_)
\* sum([... for r in reactions], [])
AllTerms(rs) == IF rs = <<>> THEN <<>> ELSE TermsOf(Head(rs)) \o AllTerms(Tail(rs))

RECURSIVE Orders(_)
\* the sequences that hold each element of S once
Orders(S) ==
    IF S = {} THEN {<<>>}
    ELSE UNION {{<< x >> \o p : p \in Orders(S \ {x})} : x \in S}

\* list(xs): ListOfSet with the set() forgotten, so repeated names stay
ListNoSet(xs) == {xs}

\* list(set(xs)): each element once, in the order the set iterates, which for
\* strings depends on the process's hash seed: any order can come out
ListOfSet(xs) == Orders(Range(xs))

\* species.index(name), counted from 0: the first position holding name
index(sp, name) ==
    (CHOOSE i \in 1..Len(sp) : sp[i] = name /\ \A j \in 1..(i - 1) : sp[j] # name) - 1

\* ------------------------------------------------------------- kinetics
RECURSIVE IndicesOf(_, _)
\* [species.index(s.strip()) for s in terms if s.strip() in species]
IndicesOf(sp, terms) ==
    IF terms = <<>> THEN <<>>
    ELSE (IF strip(Head(terms)) \in Range(sp)
          THEN << index(sp, strip(Head(terms))) >> ELSE <<>>)
         \o IndicesOf(sp, Tail(terms))

RECURSIVE prod(_, _)
\* np.prod([y[idx] for idx in idxs if idx < len(y)])
prod(yy, idxs) ==
    IF idxs = <<>> THEN 1
    ELSE (IF Head(idxs) < Len(yy) THEN yy[Head(idxs) + 1] ELSE 1) * prod(yy, Tail(idxs))

RECURSIVE AddAtAssign(_, _, _)
\* AddAt with = in place of +=: dydt[idx] = amount
AddAtAssign(d, idxs, amount) ==
    IF idxs = <<>> THEN d
    ELSE AddAtAssign(IF Head(idxs) < Len(d)
                     THEN [d EXCEPT ![Head(idxs) + 1] = amount] ELSE d,
                     Tail(idxs), amount)

RECURSIVE AddAt(_, _, _)
\* for idx in idxs: if idx < len(y): dydt[idx] += amount
AddAt(d, idxs, amount) ==
    IF idxs = <<>> THEN d
    ELSE AddAt(IF Head(idxs) < Len(d)
               THEN [d EXCEPT ![Head(idxs) + 1] = @ + amount] ELSE d,
               Tail(idxs), amount)

\* the unpacking substrates, products = description.split("<=>") raises
\* ValueError unless the split has exactly two pieces
Unpacks(desc) == Len(split(desc, ARROW)) = 2

\* NetFlux with the constant on the wrong side: it scales the forward flux
NetFluxForwardScaled(k, yy, S, P) == k * prod(yy, S) - 10 * prod(yy, P)

\* forward_flux - reverse_flux of one reaction, in tenths
NetFlux(k, yy, S, P) == 10 * prod(yy, S) - k * prod(yy, P)

\* one pass of the loop body of reaction_kinetics
ReactionStep(d, r, sp, keq, yy) ==
    IF ~Unpacks(r[2]) THEN d
    ELSE LET parts == split(r[2], ARROW)
             S == IndicesOf(sp, split(parts[1], PLUS))
             P == IndicesOf(sp, split(parts[2], PLUS))
             net == NetFlux(keq[r[1]], yy, S, P)
         IN  AddAt(AddAt(d, S, 0 - net), P, net)

RECURSIVE KineticsLoop(_, _, _, _, _)
KineticsLoop(d, rs, sp, keq, yy) ==
    IF rs = <<>> THEN d
    ELSE KineticsLoop(ReactionStep(d, Head(rs), sp, keq, yy), Tail(rs), sp, keq, yy)

\* reaction_kinetics(t, y) under the enclosing reactions, species and constants
reaction_kinetics(rs, sp, keq, yy) ==
    KineticsLoop([i \in 1..Len(yy) |-> 0], rs, sp, keq, yy)

RECURSIVE SkippedIn(_)
\* the descriptions reaction_kinetics prints as malformed, in order
SkippedIn(rs) ==
    IF rs = <<>> THEN <<>>
    ELSE (IF Unpacks(Head(rs)[2]) THEN <<>> ELSE << Head(rs)[2] >>) \o SkippedIn(Tail(rs))

\* ------------------------------------------------------------- simulate
\* initial_concentrations += [0] * (num_species - len(initial_concentrations))
Padded(ic, n) == IF Len(ic) < n THEN ic \o [i \in 1..(n - Len(ic)) |-> 0] ELSE ic

\* Sliced with the slice forgotten: the list is handed over whole
SlicedWhole(ic, n) == ic

\* initial_concentrations[:num_species]
Sliced(ic, n) == SubSeq(ic, 1, IF Len(ic) < n THEN Len(ic) ELSE n)

NoSolution == [called |-> FALSE, success |-> FALSE, samples |-> 0]

\* the main script at rest
DriverIdle ==
    /\ dpc = "idle"
    /\ results = <<>>
    /\ skipped_lines = <<>>
    /\ network = {}
    /\ network_skipped = <<>>
    /\ calls = <<>>
    /\ run = 0

\* analyze_changes at rest
AnalyzeIdle ==
    /\ apc = "idle"
    /\ ay = <<>>
    /\ magnitude = <<>>

SimInit ==
    /\ DriverIdle
    /\ AnalyzeIdle
    /\ pc = "start"
    /\ reactions \in ReactionLists
    /\ initial_concentrations \in InitLists
    /\ equilibrium_constants = <<>>
    /\ species = <<>>
    /\ y0 = <<>>
    /\ y = <<>>
    /\ dydt = <<>>
    /\ diagnostics = <<>>
    /\ evals = 0
    /\ solution = NoSolution
    /\ error = "none"

\* equilibrium_constants = {reaction[0]: np.random.uniform(0.1, 10) ...}
DrawConstants ==
    /\ pc = "start"
    /\ equilibrium_constants' \in [{reactions[i][1] : i \in 1..Len(reactions)} -> KValues]
    /\ pc' = "constants"
    /\ UNCHANGED << driverVars, analyzeVars >>
    /\ UNCHANGED << reactions, initial_concentrations, species, y0, y, dydt,
                    diagnostics, evals, solution, error >>

\* species = list(set(sum([...], []))) with every description well enough formed
ParseSpecies ==
    /\ pc = "constants"
    /\ ~SpeciesRaises(reactions)
    /\ species' \in ListOfSet(AllTerms(reactions))
    /\ pc' = "species"
    /\ UNCHANGED << driverVars, analyzeVars >>
    /\ UNCHANGED << reactions, initial_concentrations, equilibrium_constants, y0, y,
                    dydt, diagnostics, evals, solution, error >>

\* the same statement when a description has no "<=>": IndexError, uncaught
ParseSpeciesRaises ==
    /\ pc = "constants"
    /\ SpeciesRaises(reactions)
    /\ error' = "IndexError"
    /\ pc' = "raised"
    /\ UNCHANGED << driverVars, analyzeVars >>
    /\ UNCHANGED << reactions, initial_concentrations, equilibrium_constants, species,
                    y0, y, dydt, diagnostics, evals, solution >>

\* the padding of initial_concentrations, then the call of solve_ivp
CallSolver ==
    /\ pc = "species"
    /\ initial_concentrations' = Padded(initial_concentrations, Len(species))
    /\ y0' = Sliced(initial_concentrations', Len(species))
    /\ pc' = "integrating"
    /\ UNCHANGED << driverVars, analyzeVars >>
    /\ UNCHANGED << reactions, equilibrium_constants, species, y, dydt, diagnostics,
                    evals, solution, error >>

\* solve_ivp starts by evaluating reaction_kinetics at the vector it was given
\* (its later evaluations, at other vectors, are followed in KineticsSpec)
Evaluate ==
    /\ pc = "integrating"
    /\ evals = 0
    /\ y' = y0
    /\ dydt' = reaction_kinetics(reactions, species, equilibrium_constants, y0)
    /\ diagnostics' = SkippedIn(reactions)
    /\ evals' = evals + 1
    /\ UNCHANGED << driverVars, analyzeVars >>
    /\ UNCHANGED << pc, reactions, initial_concentrations, equilibrium_constants,
                    species, y0, solution, error >>

\* solve_ivp finishes: 100 samples; t, y and species are returned
SolveSucceeds ==
    /\ pc = "integrating"
    /\ evals > 0
    /\ solution' = [called |-> TRUE, success |-> TRUE, samples |-> SampleCount]
    /\ pc' = "returned"
    /\ UNCHANGED << driverVars, analyzeVars >>
    /\ UNCHANGED << reactions, initial_concentrations, equilibrium_constants, species,
                    y0, y, dydt, diagnostics, evals, error >>

\* solve_ivp gives up (status -1, success False): it returns the samples it
\* reached, fewer than asked for, and simulate_reaction_dynamics returns them
\* without a look at solution.success
SolveFails ==
    /\ pc = "integrating"
    /\ evals > 0
    /\ \E n \in {1, SampleCount - 1} :
          solution' = [called |-> TRUE, success |-> FALSE, samples |-> n]
    /\ pc' = "returned"
    /\ UNCHANGED << driverVars, analyzeVars >>
    /\ UNCHANGED << reactions, initial_concentrations, equilibrium_constants, species,
                    y0, y, dydt, diagnostics, evals, error >>

SimNext ==
    \/ DrawConstants
    \/ ParseSpecies
    \/ ParseSpeciesRaises
    \/ CallSolver
    \/ Evaluate
    \/ SolveSucceeds
    \/ SolveFails

\* one call of simulate_reaction_dynamics
SimSpec == SimInit /\ [][SimNext]_vars

\* ------------------------------------------------------------- kinetics alone
\* the reaction lists that get past the species statement
KineticLists == {rs \in ReactionLists : ~SpeciesRaises(rs)}

\* reaction_kinetics as solve_ivp may call it: any state vector of the length
\* of the species list, under any constants and any order of the species
KineticsInit ==
    /\ DriverIdle
    /\ AnalyzeIdle
    /\ pc = "integrating"
    /\ reactions \in KineticLists
    /\ initial_concentrations = <<>>
    /\ equilibrium_constants \in [{reactions[i][1] : i \in 1..Len(reactions)} -> KValues]
    /\ species \in ListOfSet(AllTerms(reactions))
    /\ y0 = <<>>
    /\ y \in [1..Len(species) -> YValues]
    /\ dydt = <<>>
    /\ diagnostics = <<>>
    /\ evals = 0
    /\ solution = NoSolution
    /\ error = "none"

\* one call reaction_kinetics(t, y)
KineticsEvaluate ==
    /\ pc = "integrating"
    /\ evals = 0
    /\ dydt' = reaction_kinetics(reactions, species, equilibrium_constants, y)
    /\ diagnostics' = SkippedIn(reactions)
    /\ evals' = 1
    /\ UNCHANGED << driverVars, analyzeVars >>
    /\ UNCHANGED << pc, reactions, initial_concentrations, equilibrium_constants,
                    species, y0, y, solution, error >>

KineticsNext == KineticsEvaluate

\* the flux function on its own
KineticsSpec == KineticsInit /\ [][KineticsNext]_vars

\* ------------------------------------------------------------- fetch
LineGlucose ==
    <<"R00001", "\t", "C00031", " ", "+", " ", "C00002", " ", "<=>", " ", "C00003">>
LineMalformed == <<"R00002", "\t", "malformed_line">>
LineTwoArrows ==
    <<"R00003", "\t", "C00031", " ", "<=>", " ", "C00002", " ", "<=>", " ", "C00003">>
LineTwoTabs == <<"R00004", "\t", "C00003", " ", "<=>", "\t", "C00002">>
LineNoTab == <<"no_tab_line">>
LineEmpty == <<>>

LinePool ==
    {LineGlucose, LineMalformed, LineTwoArrows, LineTwoTabs, LineNoTab, LineEmpty}

RECURSIVE JoinLines(_)
\* the record text whose lines are ls
JoinLines(ls) ==
    IF ls = <<>> THEN <<>>
    ELSE IF Len(ls) = 1 THEN ls[1]
    ELSE ls[1] \o NL \o JoinLines(Tail(ls))

ResultTexts == {JoinLines(ls) : ls \in SeqsUpTo(LinePool, MaxLines)}

\* reactions = results.split("\n") if results else []
LinesOf(text) == IF text # <<>> THEN split(text, NL) ELSE <<>>

RECURSIVE ParsedOf(_)
\* parsed_reactions after the loop over the lines
ParsedOf(ls) ==
    IF ls = <<>> THEN <<>>
    ELSE (IF Contains(Head(ls), TAB)
          THEN << << split1(Head(ls), TAB)[1], split1(Head(ls), TAB)[2] >> >>
          ELSE <<>>)
         \o ParsedOf(Tail(ls))

RECURSIVE SkippedOf(_)
\* skipped_lines after the loop over the lines
SkippedOf(ls) ==
    IF ls = <<>> THEN <<>>
    ELSE (IF Contains(Head(ls), TAB) THEN <<>> ELSE << Head(ls) >>) \o SkippedOf(Tail(ls))

\* ------------------------------------------------------------- network
\* the edges one well-formed reaction adds: every substrate to every product
EdgesOf(r) ==
    LET parts == split(r[2], ARROW)
    IN  { << s, p, r[1] >> : s \in Range(StripAll(split(parts[1], PLUS))),
                             p \in Range(StripAll(split(parts[2], PLUS))) }

\* G.add_edge on a DiGraph: an edge already there gets the new reaction attribute
AddEdges(G, new) ==
    {e \in G : ~\E n \in new : n[1] = e[1] /\ n[2] = e[2]} \cup new

RECURSIVE NetworkLoop(_, _)
NetworkLoop(G, rs) ==
    IF rs = <<>> THEN G
    ELSE NetworkLoop(IF Unpacks(Head(rs)[2]) THEN AddEdges(G, EdgesOf(Head(rs))) ELSE G,
                     Tail(rs))

\* build_reaction_network(reactions)
build_reaction_network(rs) == NetworkLoop({}, rs)

\* ------------------------------------------------------------- main
\* initial_concentration_range, in tenths
initial_concentration_range == << 1, 5, 10, 20 >>

\* [initial_concentration] + [0.1] * (len(reactions) - 1), in tenths
DriverInitial(c, n) == << c >> \o [i \in 1..(n - 1) |-> 1]

Init ==
    /\ AnalyzeIdle
    /\ dpc = "fetch"
    /\ results \in ResultTexts
    /\ skipped_lines = <<>>
    /\ network = {}
    /\ network_skipped = <<>>
    /\ calls = <<>>
    /\ run = 0
    /\ pc = "idle"
    /\ reactions = <<>>
    /\ initial_concentrations = <<>>
    /\ equilibrium_constants = <<>>
    /\ species = <<>>
    /\ y0 = <<>>
    /\ y = <<>>
    /\ dydt = <<>>
    /\ diagnostics = <<>>
    /\ evals = 0
    /\ solution = NoSolution
    /\ error = "none"

\* reactions = fetch_reactions_for_molecule(molecule_id)
Fetch ==
    /\ dpc = "fetch"
    /\ reactions' = ParsedOf(LinesOf(results))
    /\ skipped_lines' = SkippedOf(LinesOf(results))
    /\ calls' = Append(calls, << "fetch", 0 >>)
    /\ dpc' = "fetched"
    /\ UNCHANGED << results, network, network_skipped, run >>
    /\ UNCHANGED << pc, initial_concentrations, equilibrium_constants, species, y0, y,
                    dydt, diagnostics, evals, solution, error >>
    /\ UNCHANGED analyzeVars

\* if reactions: is false, the script ends
NoReactions ==
    /\ dpc = "fetched"
    /\ reactions = <<>>
    /\ dpc' = "done"
    /\ UNCHANGED << results, skipped_lines, network, network_skipped, calls, run >>
    /\ UNCHANGED << simVars, analyzeVars >>

\* G = build_reaction_network(reactions)
Build ==
    /\ dpc = "fetched"
    /\ reactions # <<>>
    /\ network' = build_reaction_network(reactions)
    /\ network_skipped' = SkippedIn(reactions)
    /\ calls' = Append(calls, << "build", 0 >>)
    /\ run' = 1
    /\ dpc' = "simulate"
    /\ UNCHANGED << results, skipped_lines >>
    /\ UNCHANGED << simVars, analyzeVars >>

\* simulate_reaction_dynamics(reactions, initial_concentrations, time_span) as
\* called in the loop, ending with a returned solution; within one process the
\* set of the same names iterates in the same order at every call
DriverSimulate ==
    /\ dpc = "simulate"
    /\ ~SpeciesRaises(reactions)
    /\ equilibrium_constants' \in [{reactions[i][1] : i \in 1..Len(reactions)} -> KValues]
    /\ species' \in (IF run > 1 THEN {species} ELSE ListOfSet(AllTerms(reactions)))
    /\ initial_concentrations' =
          Padded(DriverInitial(initial_concentration_range[run], Len(reactions)),
                 Len(species'))
    /\ y0' = Sliced(initial_concentrations', Len(species'))
    /\ \/ solution' = [called |-> TRUE, success |-> TRUE, samples |-> SampleCount]
       \/ \E n \in {1, SampleCount - 1} :
             solution' = [called |-> TRUE, success |-> FALSE, samples |-> n]
    /\ calls' = Append(calls, << "simulate", initial_concentration_range[run] >>)
    /\ dpc' = "plot"
    /\ UNCHANGED << results, skipped_lines, network, network_skipped, run >>
    /\ UNCHANGED << pc, reactions, y, dydt, diagnostics, evals, error >>
    /\ UNCHANGED analyzeVars

\* the same call when a description has no "<=>": the IndexError of the species
\* statement leaves simulate_reaction_dynamics and ends the script
DriverSimulateRaises ==
    /\ dpc = "simulate"
    /\ SpeciesRaises(reactions)
    /\ equilibrium_constants' \in [{reactions[i][1] : i \in 1..Len(reactions)} -> KValues]
    /\ initial_concentrations' =
          DriverInitial(initial_concentration_range[run], Len(reactions))
    /\ calls' = Append(calls, << "simulate", initial_concentration_range[run] >>)
    /\ error' = "IndexError"
    /\ dpc' = "raised"
    /\ UNCHANGED << results, skipped_lines, network, network_skipped, run >>
    /\ UNCHANGED << pc, reactions, species, y0, y, dydt, diagnostics, evals, solution >>
    /\ UNCHANGED analyzeVars

\* plot_dynamics(t, y, species, initial_concentration)
Plot ==
    /\ dpc = "plot"
    /\ calls' = Append(calls, << "plot", initial_concentration_range[run] >>)
    /\ dpc' = "analyze"
    /\ UNCHANGED << results, skipped_lines, network, network_skipped, run >>
    /\ UNCHANGED << simVars, analyzeVars >>

\* analyze_changes(y, species), then the next pass of the loop or the end
Analyze ==
    /\ dpc = "analyze"
    /\ calls' = Append(calls, << "analyze", initial_concentration_range[run] >>)
    /\ IF run < Len(initial_concentration_range)
       THEN run' = run + 1 /\ dpc' = "simulate"
       ELSE run' = run /\ dpc' = "done"
    /\ UNCHANGED << results, skipped_lines, network, network_skipped >>
    /\ UNCHANGED << simVars, analyzeVars >>

Next ==
    \/ Fetch
    \/ NoReactions
    \/ Build
    \/ DriverSimulate
    \/ DriverSimulateRaises
    \/ Plot
    \/ Analyze

\* the main script
Spec == Init /\ [][Next]_vars

\* ------------------------------------------------------------- analysis
\* the inner bin edges 0.1 and 1 of the pd.cut call, in hundredths
MinorEdge == 10
ModerateEdge == 100

\* concentrations at the first and the last sample, in hundredths
SampleValues == {0, 10, 20, 100, 105, 300}

abs(x) == IF x < 0 THEN 0 - x ELSE x

\* pd.cut(c, bins=[0, 0.1, 1, inf], labels=["Minor", "Moderate", "Major"]): the
\* bins are (0, 0.1], (0.1, 1] and (1, inf]; a value in no bin gets NaN
cut(c) ==
    IF 0 < c /\ c <= MinorEdge THEN "Minor"
    ELSE IF MinorEdge < c /\ c <= ModerateEdge THEN "Moderate"
    ELSE IF ModerateEdge < c THEN "Major"
    ELSE "NaN"

\* changes = final_concentrations - initial_concentrations, per species
Change(row) == row[2] - row[1]

AnalyzeInit ==
    /\ DriverIdle
    /\ apc = "start"
    /\ ay \in SeqsUpTo(SampleValues \X SampleValues, MaxSpeciesRows) \ {<<>>}
    /\ magnitude = <<>>
    /\ pc = "idle"
    /\ reactions = <<>>
    /\ initial_concentrations = <<>>
    /\ equilibrium_constants = <<>>
    /\ species = <<>>
    /\ y0 = <<>>
    /\ y = <<>>
    /\ dydt = <<>>
    /\ diagnostics = <<>>
    /\ evals = 0
    /\ solution = NoSolution
    /\ error = "none"

\* analyze_changes(y, species)
AnalyzeChanges ==
    /\ apc = "start"
    /\ magnitude' = [i \in 1..Len(ay) |-> cut(abs(Change(ay[i])))]
    /\ apc' = "done"
    /\ UNCHANGED ay
    /\ UNCHANGED << simVars, driverVars >>

AnalyzeNext == AnalyzeChanges

\* one call of analyze_changes
AnalyzeSpec == AnalyzeInit /\ [][AnalyzeNext]_vars

\* ------------------------------------------------------------- properties
RECURSIVE SumSeq(_)
SumSeq(q) == IF q = <<>> THEN 0 ELSE Head(q) + SumSeq(Tail(q))

\* every description splits on "<=>" into exactly two sides
WellFormed(rs) == \A i \in 1..Len(rs) : Unpacks(rs[i][2])

\* the trimmed names of the two sides of a well-formed reaction, in order
SubstrateNames(r) == StripAll(split(split(r[2], ARROW)[1], PLUS))
ProductNames(r) == StripAll(split(split(r[2], ARROW)[2], PLUS))

\* the concentration y holds for a species name
ConcOf(name) == y[CHOOSE i \in 1..Len(species) : species[i] = name]

RECURSIVE ProdOfNames(_)
ProdOfNames(names) ==
    IF names = <<>> THEN 1 ELSE ConcOf(Head(names)) * ProdOfNames(Tail(names))

\* how often a name occurs in a side
Occurrences(names, n) == Cardinality({i \in 1..Len(names) : names[i] = n})

\* net of one reaction, in tenths: product over the substrate entries minus
\* k times the product over the product entries
NetOf(r) ==
    10 * ProdOfNames(SubstrateNames(r))
    - equilibrium_constants[r[1]] * ProdOfNames(ProductNames(r))

\* the derivative the contract gives species name n: every reaction adds its
\* net once per product occurrence of n and takes it once per substrate occurrence
ContractDerivative(n) ==
    SumSeq([i \in 1..Len(reactions) |->
               NetOf(reactions[i])
               * (Occurrences(ProductNames(reactions[i]), n)
                  - Occurrences(SubstrateNames(reactions[i]), n))])

Evaluated == pc = "integrating" /\ evals > 0

SpeciesBuilt == pc \in {"species", "integrating", "returned"}

\* C1: a reaction whose description does not split on "<=>" into exactly two
\* sides never makes simulate_reaction_dynamics raise, and every evaluation of
\* reaction_kinetics reports it as skipped.
C1_MalformedNeverRaises ==
    /\ pc # "raised"
    /\ error = "none"
    /\ evals > 0 =>
          \A i \in 1..Len(reactions) :
              ~Unpacks(reactions[i][2]) => reactions[i][2] \in Range(diagnostics)

\* C2: for well-formed reactions, reaction_kinetics returns for every species
\* the sum over the reactions of net = prod(substrates) - k * prod(products),
\* taken once per substrate occurrence and added once per product occurrence;
\* for the single reaction "A <=> B" with k = 2, A at 1 and B at 0, the
\* derivative is -1 for A and +1 for B (here in tenths).
C2_KineticsMatchesContract ==
    (Evaluated /\ WellFormed(reactions)) =>
        /\ Len(dydt) = Len(species)
        /\ \A j \in 1..Len(species) : dydt[j] = ContractDerivative(species[j])
        /\ ( /\ reactions = << <<"R1", DescPair>> >>
             /\ equilibrium_constants["R1"] = 20
             /\ ConcOf(<<"A">>) = 1
             /\ ConcOf(<<"B">>) = 0 )
           => /\ dydt[index(species, <<"A">>) + 1] = 0 - 10
              /\ dydt[index(species, <<"B">>) + 1] = 10

\* the worked example of C2 has been evaluated
C2_Witness ==
    /\ Evaluated
    /\ reactions = << <<"R1", DescPair>> >>
    /\ equilibrium_constants["R1"] = 20
    /\ ConcOf(<<"A">>) = 1
    /\ ConcOf(<<"B">>) = 0
    /\ dydt[index(species, <<"A">>) + 1] = 0 - 10

RECURSIVE FirstSeen(_, _)
\* the names of xs in the order of their first occurrence, after those of seen
FirstSeen(seen, xs) ==
    IF xs = <<>> THEN seen
    ELSE FirstSeen(IF Head(xs) \in Range(seen) THEN seen ELSE Append(seen, Head(xs)),
                   Tail(xs))

\* C3: the species list is in first-seen order (reactions in input order,
\* substrates before products), so the first substrate of the first reaction
\* has index 0.
C3_FirstSeenOrder ==
    SpeciesBuilt =>
        /\ species = FirstSeen(<<>>, AllTerms(reactions))
        /\ index(species, SubstrateNames(reactions[1])[1]) = 0

\* the names on either side of any reaction of the list
NamesOf(rs) ==
    UNION { Range(SubstrateNames(rs[i])) \cup Range(ProductNames(rs[i])) :
            i \in 1..Len(rs) }

\* C4: the species list holds each distinct trimmed name of the reactions exactly
\* once and nothing else, its indices cover exactly [0, N) with N the number of
\* distinct names, and every name reaction_kinetics looks up has exactly one
\* index in that range.
C4_SpeciesBijection ==
    SpeciesBuilt =>
        /\ \A i, j \in 1..Len(species) : species[i] = species[j] => i = j
        /\ WellFormed(reactions) =>
              /\ Range(species) = NamesOf(reactions)
              /\ Len(species) = Cardinality(NamesOf(reactions))
        /\ \A r \in 1..Len(reactions) :
              Unpacks(reactions[r][2]) =>
                 \A n \in Range(SubstrateNames(reactions[r]))
                          \cup Range(ProductNames(reactions[r])) :
                    /\ Cardinality({i \in 1..Len(species) : species[i] = n}) = 1
                    /\ index(species, n) \in 0..(Len(species) - 1)

\* a species list built from reactions that repeat names
C4_Witness ==
    /\ pc = "species"
    /\ WellFormed(reactions)
    /\ Len(reactions) = 2
    /\ Len(AllTerms(reactions)) > Len(species)
    /\ Len(species) = 3

\* the vector the contract hands to the integrator for a supplied list ic and
\* n species
ContractVector(ic, n) ==
    IF Len(ic) < n THEN ic \o [i \in 1..(n - Len(ic)) |-> 0]
    ELSE IF Len(ic) > n THEN [i \in 1..n |-> ic[i]]
    ELSE ic

\* C5, at the call of the integrator: the vector handed over is the supplied
\* list padded with zeros or cut to the species count
C5_AtCall ==
    (pc = "species" /\ pc' = "integrating") =>
        /\ Len(y0') = Len(species)
        /\ y0' = ContractVector(initial_concentrations, Len(species))

\* C5, afterwards: the vector and every state vector have one entry per
\* species, so no species index fails the idx < len(y) check
C5_IndicesInRange ==
    pc \in {"integrating", "returned"} =>
        /\ Len(y0) = Len(species)
        /\ evals > 0 =>
              /\ Len(y) = Len(species)
              /\ \A n \in Range(species) : index(species, n) < Len(y)

\* C5: the vector handed to the integrator has exactly N entries (the supplied
\* entries followed by zeros when fewer than N were supplied, the first N when
\* more were, the list itself when N were), so every species index is within
\* the state vector.
C5_VectorMatchesSpecies == []C5_IndicesInRange /\ [][C5_AtCall]_vars

\* the padding example: one entry supplied, three species
C5_Witness ==
    /\ pc = "integrating"
    /\ Len(species) = 3
    /\ y0 = << 1, 0, 0 >>

\* C6: every line whose description lacks "<=>" or holds it more than once is
\* excluded from the list fetch_reactions_for_molecule returns and reported,
\* returned plus skipped lines make up the input lines, and the two-line
\* example yields the one reaction R00001 and one skipped line.
C6_MalformedExcluded ==
    dpc # "fetch" =>
        /\ \A i \in 1..Len(reactions) : Unpacks(reactions[i][2])
        /\ Len(reactions) + Len(skipped_lines) = Len(LinesOf(results))
        /\ results = JoinLines(<< LineGlucose, LineMalformed >>) =>
              /\ Len(reactions) = 1
              /\ reactions[1][1] = << "R00001" >>
              /\ Len(skipped_lines) = 1

\* C7 as claimed: for any single well-formed reaction the entries of dy of its
\* species sum to zero.
C7_SingleReactionConserves ==
    (Evaluated /\ Len(reactions) = 1 /\ WellFormed(reactions)) => SumSeq(dydt) = 0

\* C7 as amended: for a single well-formed reaction with as many substrate
\* terms as product terms the entries of dy of its species sum to zero.
C7_BalancedReactionConserves ==
    ( /\ Evaluated
      /\ Len(reactions) = 1
      /\ WellFormed(reactions)
      /\ Len(SubstrateNames(reactions[1])) = Len(ProductNames(reactions[1])) )
    => SumSeq(dydt) = 0

\* a balanced reaction with a repeated product, evaluated with a net flux
C7_Witness ==
    /\ Evaluated
    /\ reactions = << <<"R1", DescSwap>> >>
    /\ \E j \in 1..Len(dydt) : dydt[j] # 0

\* C8: a time series handed to plot_dynamics or analyze_changes comes from a
\* successful integration with 100 sample times; a failed integration ends the
\* call in an error.
C8_SeriesFromSuccess ==
    dpc \in {"plot", "analyze"} =>
        /\ solution.success
        /\ solution.samples = SampleCount

\* the calls of one pass of the loop
PassCalls(c) == << << "simulate", c >>, << "plot", c >>, << "analyze", c >> >>

\* C9: with no reactions fetched nothing runs after the fetch; with at least
\* one, the script runs simulate, plot, analyze once for each of 0.1, 0.5, 1.0,
\* 2.0 in that order.
C9_DriverSequence ==
    /\ (dpc # "fetch" /\ reactions = <<>>) => calls = << << "fetch", 0 >> >>
    /\ (dpc \in {"done", "raised"} /\ reactions # <<>>) =>
          calls = << << "fetch", 0 >>, << "build", 0 >> >>
                  \o PassCalls(1) \o PassCalls(5) \o PassCalls(10) \o PassCalls(20)

\* the label the summary's legend gives an absolute change, in hundredths
LegendLabel(c) ==
    IF c < MinorEdge THEN "Minor"
    ELSE IF c <= ModerateEdge THEN "Moderate"
    ELSE "Major"

\* C10: every species gets the label of its absolute change: Minor below 0.1,
\* Moderate from 0.1 to 1, Major above 1; none is left without a label.
C10_EverySpeciesLabelled ==
    apc = "done" =>
        \A i \in 1..Len(ay) :
            /\ magnitude[i] \in {"Minor", "Moderate", "Major"}
            /\ magnitude[i] = LegendLabel(abs(Change(ay[i])))

====
